---- MODULE Spec2Model ----
(***************************************************************************)
(* Model of app.py, the IndicDLP snippet viewer: the three directory scans *)
(* (list_languages, list_regions, load_pairs), parse_annotation, the       *)
(* st.cache_data memoisation of the scans and the top-level script that    *)
(* drives them.                                                            *)
(*                                                                         *)
(* File names are sequences of one-character strings, so that stem, glob   *)
(* matching and Python's string ordering are computed character by         *)
(* character.  A path is the sequence of names below OUTPUT_DIR.           *)
(***************************************************************************)
EXTENDS Integers, Sequences, FiniteSets, TLC

VARIABLES
  fs,        \* the filesystem: existing path -> node
  out,       \* the last direct call and what it returned or raised
  cache,     \* st.cache_data: <<function, args>> -> cached return value
  cachedAt,  \* history: the filesystem each cache entry was computed on
  pc,        \* position of the script run
  lang,      \* value of the Language selectbox
  region,    \* value of the Region selectbox
  langs,     \* script variable langs
  regions,   \* script variable regions
  pairs,     \* script variable pairs
  idx,       \* number of pairs the render loop has finished
  calls,     \* history: the calls of this run, in order
  hit,       \* history: the last scan call and whether the cache answered it
  err,       \* the exception that ended the run, if any
  nchanges,  \* filesystem changes so far during the session
  nruns      \* script runs started so far

vars == <<fs, out, cache, cachedAt, pc, lang, region, langs, regions, pairs,
          idx, calls, hit, err, nchanges, nruns>>

uiVars == <<pc, lang, region, langs, regions, pairs, idx, calls, hit, err, nruns>>

----------------------------------------------------------------------------
(* Bounds *)

MaxCats == 2       \* longest categories list
MaxAnns == 2       \* longest annotations list
MaxFsChanges == 1  \* filesystem changes during one viewer session
MaxRuns == 2       \* script runs (reruns) during one viewer session

----------------------------------------------------------------------------
(* Characters, names, Python's str and Path ordering *)

OrdTable ==
  ("." :> 46) @@ ("B" :> 66) @@ ("a" :> 97) @@ ("b" :> 98) @@ ("c" :> 99) @@
  ("e" :> 101) @@ ("g" :> 103) @@ ("h" :> 104) @@ ("i" :> 105) @@
  ("j" :> 106) @@ ("m" :> 109) @@ ("n" :> 110) @@ ("o" :> 111) @@
  ("p" :> 112) @@ ("s" :> 115) @@ ("u" :> 117)

Ord(c) == OrdTable[c]

Min(a, b) == IF a <= b THEN a ELSE b

\* s < t for two Python str values (code point by code point, a proper
\* prefix first)
StrLess(s, t) ==
  \/ \E i \in 1..Min(Len(s), Len(t)) :
       /\ \A k \in 1..(i - 1) : s[k] = t[k]
       /\ Ord(s[i]) < Ord(t[i])
  \/ /\ Len(s) < Len(t)
     /\ \A k \in 1..Len(s) : s[k] = t[k]

\* p < q for two PosixPath values: the lists of parts compare part by part
PathLess(p, q) ==
  \/ \E i \in 1..Min(Len(p), Len(q)) :
       /\ \A k \in 1..(i - 1) : p[k] = q[k]
       /\ StrLess(p[i], q[i])
  \/ /\ Len(p) < Len(q)
     /\ \A k \in 1..Len(p) : p[k] = q[k]

\* the list left as the directory scan produced it
unsorted(s) == s

\* sorted(names) and sorted(paths): Python's stable sort
sorted_names(s) == SortSeq(s, StrLess)

sorted_paths(s) == SortSeq(s, PathLess)

Range(s) == {s[i] : i \in 1..Len(s)}

----------------------------------------------------------------------------
(* pathlib *)

PNG == <<".", "p", "n", "g">>
JPG == <<".", "j", "p", "g">>
JSON == <<".", "j", "s", "o", "n">>
IMAGES == <<"i", "m", "a", "g", "e", "s">>
JSONS == <<"j", "s", "o", "n", "s">>

\* 1-based index of the last "." of a name, 0 when there is none (str.rfind)
RFindDot(name) ==
  LET D == {i \in 1..Len(name) : name[i] = "."}
  IN  IF D = {} THEN 0 ELSE CHOOSE i \in D : \A j \in D : j <= i

\* PurePath.stem: the name without its last suffix; a leading or a trailing
\* dot starts no suffix
stem(name) ==
  LET i == RFindDot(name)
  IN  IF 1 < i /\ i < Len(name) THEN SubSeq(name, 1, i - 1) ELSE name

\* PurePath.suffix
suffix(name) ==
  LET i == RFindDot(name)
  IN  IF 1 < i /\ i < Len(name) THEN SubSeq(name, i, Len(name)) ELSE << >>

\* fnmatch of a name against the pattern "*" + tail
fnmatch_star(name, tail) ==
  /\ Len(name) >= Len(tail)
  /\ SubSeq(name, Len(name) - Len(tail) + 1, Len(name)) = tail

PathName(p) == p[Len(p)]

Parent(p) == SubSeq(p, 1, Len(p) - 1)

\* base / name
Join(p, name) == Append(p, name)

IsPrefix(p, q) == Len(p) <= Len(q) /\ SubSeq(q, 1, Len(p)) = p

\* Path.exists()
exists(f, p) == p \in DOMAIN f

\* Path.is_dir()
is_dir(f, p) == p \in DOMAIN f /\ f[p].kind = "dir"

Children(f, p) == {q \in DOMAIN f : Len(q) = Len(p) + 1 /\ Parent(q) = p}

\* the orders in which the OS may enumerate directory p (os.scandir gives
\* no order); the empty enumeration when p is no directory
Listings(f, p) ==
  IF is_dir(f, p)
    THEN LET C == Children(f, p)
         IN  {s \in [1..Cardinality(C) -> C] : Range(s) = C}
    ELSE {<< >>}

\* Path.glob("*" + tail), the directory enumerated in the order `listing`:
\* the matching entries; nothing when p is no directory
glob_star(f, p, tail, listing) ==
  IF is_dir(f, p)
    THEN LET Match(q) == fnmatch_star(PathName(q), tail) IN SelectSeq(listing, Match)
    ELSE << >>

----------------------------------------------------------------------------
(* Return values and exceptions *)

NoExc == [type |-> "none", hasFilename |-> FALSE, filename |-> << >>]

Ret(v) == [ok |-> TRUE, value |-> v, exc |-> NoExc]

\* an OSError carries the path in .filename
RaiseOS(type, p) ==
  [ok |-> FALSE, value |-> << >>,
   exc |-> [type |-> type, hasFilename |-> TRUE, filename |-> p]]

\* other exceptions carry no path
RaisePlain(type) ==
  [ok |-> FALSE, value |-> << >>,
   exc |-> [type |-> type, hasFilename |-> FALSE, filename |-> << >>]]

\* Path.iterdir(), the directory enumerated in the order `listing`
iterdir(f, p, listing) ==
  IF ~exists(f, p) THEN RaiseOS("FileNotFoundError", p)
  ELSE IF ~is_dir(f, p) THEN RaiseOS("NotADirectoryError", p)
  ELSE Ret(listing)

MapNames(s) == [i \in 1..Len(s) |-> PathName(s[i])]

----------------------------------------------------------------------------
(* The scans.  `listing` is the order in which the OS enumerates the one   *)
(* directory the scan reads.                                               *)

OUTPUT_DIR == << >>

PLACEHOLDER == <<"s", "e", "l", "e", "c", "t">>

\* sorted([p.name for p in d.iterdir() if p.is_dir()])
list_dirs(f, d, listing) ==
  LET it == iterdir(f, d, listing)
      IsDir(q) == is_dir(f, q)
  IN  IF ~it.ok THEN it
      ELSE Ret(sorted_names(MapNames(SelectSeq(it.value, IsDir))))

\* list_dirs without the exists() guard in front of it
list_languages_unguarded(f, base, listing) == list_dirs(f, base, listing)

list_languages(f, base, listing) ==
  IF ~exists(f, base) THEN Ret(<< >>) ELSE list_dirs(f, base, listing)

\* list_regions keeping every entry, not only the directories
list_regions_all_entries(f, base, l, listing) ==
  LET lang_dir == Join(base, l)
      it == iterdir(f, lang_dir, listing)
  IN  IF ~exists(f, lang_dir) THEN Ret(<< >>)
      ELSE IF ~it.ok THEN it
      ELSE Ret(sorted_names(MapNames(it.value)))

list_regions(f, base, l, listing) ==
  LET lang_dir == Join(base, l)
  IN  IF ~exists(f, lang_dir) THEN Ret(<< >>) ELSE list_dirs(f, lang_dir, listing)

\* the loop of load_pairs that appends without asking js.exists()
RECURSIVE pair_loop_no_check(_, _, _)
pair_loop_no_check(f, js_dir, imgs) ==
  IF imgs = << >> THEN << >>
  ELSE LET img == Head(imgs)
           js == Join(js_dir, stem(PathName(img)) \o JSON)
       IN  << <<img, js>> >> \o pair_loop_no_check(f, js_dir, Tail(imgs))

\* the loop of load_pairs that returns at the first pair
RECURSIVE pair_loop_first_only(_, _, _)
pair_loop_first_only(f, js_dir, imgs) ==
  IF imgs = << >> THEN << >>
  ELSE LET img == Head(imgs)
           js == Join(js_dir, stem(PathName(img)) \o JSON)
       IN  IF exists(f, js) THEN << <<img, js>> >>
           ELSE pair_loop_first_only(f, js_dir, Tail(imgs))

\* the loop of load_pairs over the sorted images
RECURSIVE pair_loop(_, _, _)
pair_loop(f, js_dir, imgs) ==
  IF imgs = << >> THEN << >>
  ELSE LET img == Head(imgs)
           js == Join(js_dir, stem(PathName(img)) \o JSON)
       IN  (IF exists(f, js) THEN << <<img, js>> >> ELSE << >>)
             \o pair_loop(f, js_dir, Tail(imgs))

load_pairs(f, base, l, r, listing) ==
  LET region_dir == Join(Join(base, l), r)
      img_dir == Join(region_dir, IMAGES)
      js_dir == Join(region_dir, JSONS)
  IN  IF ~exists(f, img_dir) \/ ~exists(f, js_dir) THEN Ret(<< >>)
      ELSE Ret(pair_loop(f, js_dir, sorted_paths(glob_star(f, img_dir, PNG, listing))))

----------------------------------------------------------------------------
(* Annotation files *)

CatIds == {1, 2}
CatNames == {"title", "para"}

\* one element of "categories"; a key that is absent has has* = FALSE
CatElems ==
  {[hasId |-> TRUE, id |-> i, hasName |-> TRUE, name |-> n] : i \in CatIds, n \in CatNames}
  \cup {[hasId |-> TRUE, id |-> i, hasName |-> FALSE, name |-> ""] : i \in CatIds}
  \cup {[hasId |-> FALSE, id |-> 0, hasName |-> TRUE, name |-> n] : n \in CatNames}
  \cup {[hasId |-> FALSE, id |-> 0, hasName |-> FALSE, name |-> ""]}

\* one element of "annotations"
AnnElems ==
  {[hasCategoryId |-> TRUE, category_id |-> 1, hasText |-> TRUE, text |-> "Hello"],
   [hasCategoryId |-> FALSE, category_id |-> 0, hasText |-> FALSE, text |-> ""]}

SeqsUpTo(S, n) == UNION {[1..k -> S] : k \in 0..n}

\* the decoded top-level object: optional "categories", optional "annotations"
Docs ==
  {[hasCategories |-> TRUE, categories |-> c, hasAnnotations |-> TRUE, annotations |-> a] :
      c \in SeqsUpTo(CatElems, MaxCats), a \in SeqsUpTo(AnnElems, MaxAnns)}
  \cup {[hasCategories |-> FALSE, categories |-> << >>, hasAnnotations |-> TRUE, annotations |-> a] :
      a \in SeqsUpTo(AnnElems, MaxAnns)}
  \cup {[hasCategories |-> TRUE, categories |-> c, hasAnnotations |-> FALSE, annotations |-> << >>] :
      c \in SeqsUpTo(CatElems, MaxCats)}
  \cup {[hasCategories |-> FALSE, categories |-> << >>, hasAnnotations |-> FALSE, annotations |-> << >>]}

EmptyDoc ==
  [hasCategories |-> FALSE, categories |-> << >>, hasAnnotations |-> FALSE, annotations |-> << >>]

\* what a file holds: bytes that are no UTF-8 text ("badutf8"), text that is
\* no JSON ("badjson"), a JSON value that is no object ("nonobject"), or a
\* JSON object ("object", with its decoded form in doc)
Garbage == [form |-> "badjson", doc |-> EmptyDoc]

BadUtf8 == [form |-> "badutf8", doc |-> EmptyDoc]

NonObject == [form |-> "nonobject", doc |-> EmptyDoc]

JsonText(d) == [form |-> "object", doc |-> d]

DirNode == [kind |-> "dir", readable |-> TRUE, content |-> Garbage]

FileNode(r, c) == [kind |-> "file", readable |-> r, content |-> c]

\* open(js_path, "r", encoding="utf-8")
open_read(f, p) ==
  IF ~exists(f, p) THEN RaiseOS("FileNotFoundError", p)
  ELSE IF f[p].kind = "dir" THEN RaiseOS("IsADirectoryError", p)
  ELSE IF ~f[p].readable THEN RaiseOS("PermissionError", p)
  ELSE Ret(f[p].content)

\* json.load(f): reads the text, then decodes it
json_load(content) ==
  IF content.form = "badutf8" THEN RaisePlain("UnicodeDecodeError")
  ELSE IF content.form = "badjson" THEN RaisePlain("JSONDecodeError")
  ELSE Ret(content)

\* d[k] = v on a dict
dict_put(d, k, v) == [x \in DOMAIN d \cup {k} |-> IF x = k THEN v ELSE d[x]]

\* the comprehension keeping the first name seen for an id
RECURSIVE cat_first_wins(_, _)
cat_first_wins(d, cats) ==
  IF cats = << >> THEN d
  ELSE LET c == Head(cats)
       IN  cat_first_wins(
             IF c.hasId /\ c.hasName /\ c.id \notin DOMAIN d
               THEN dict_put(d, c.id, c.name) ELSE d,
             Tail(cats))

\* {c["id"]: c["name"] for c in cats if "id" in c and "name" in c}, added
\* to the dict d
RECURSIVE cat_comprehension(_, _)
cat_comprehension(d, cats) ==
  IF cats = << >> THEN d
  ELSE LET c == Head(cats)
       IN  cat_comprehension(
             IF c.hasId /\ c.hasName THEN dict_put(d, c.id, c.name) ELSE d,
             Tail(cats))

\* data.get("categories", [])
get_categories(data) == IF data.hasCategories THEN data.categories ELSE << >>

\* data.get("annotations", [])
get_annotations(data) == IF data.hasAnnotations THEN data.annotations ELSE << >>

\* data["categories"] and data["annotations"] instead of .get
extract_strict(data) ==
  IF data.form # "object" THEN RaisePlain("TypeError")
  ELSE IF ~data.doc.hasCategories \/ ~data.doc.hasAnnotations THEN RaisePlain("KeyError")
  ELSE Ret([cat_map |-> cat_comprehension(<< >>, data.doc.categories),
            ann |-> data.doc.annotations])

\* the body of parse_annotation once the text is decoded; a value that is no
\* object has no .get
extract(data) ==
  IF data.form # "object" THEN RaisePlain("AttributeError")
  ELSE Ret([cat_map |-> cat_comprehension(<< >>, get_categories(data.doc)),
            ann |-> get_annotations(data.doc)])

\* parse_annotation with the read and the decode wrapped in try/except
parse_annotation_swallow(f, js_path) ==
  LET o == open_read(f, js_path)
      data == json_load(o.value)
      x == extract(data.value)
  IN  IF ~o.ok \/ ~data.ok \/ ~x.ok THEN Ret([cat_map |-> << >>, ann |-> << >>])
      ELSE x

parse_annotation(f, js_path) ==
  LET o == open_read(f, js_path)
      data == json_load(o.value)
  IN  IF ~o.ok THEN o
      ELSE IF ~data.ok THEN data
      ELSE extract(data.value)

----------------------------------------------------------------------------
(* The filesystem the environment can build *)

EN == <<"e", "n">>
HI == <<"h", "i">>
US == <<"u", "s">>
RIN == <<"i", "n">>
NOTES == <<"c">>
A_PNG == <<"a">> \o PNG
AB_PNG == <<"a", ".", "b">> \o PNG
B_PNG == <<"b">> \o PNG
A_JPG == <<"a">> \o JPG
A_JSON == <<"a">> \o JSON
AB_JSON == <<"a", ".", "b">> \o JSON
B_JSON == <<"b">> \o JSON

LangNames == {EN, HI}
RegionNames == {US, RIN}
ImageNames == {A_PNG, AB_PNG, B_PNG, A_JPG}
JsonNames == {A_JSON, AB_JSON, B_JSON}

ImgDir(l, r) == <<l, r, IMAGES>>
JsDir(l, r) == <<l, r, JSONS>>

\* paths that may be a directory or a plain file
NodePaths ==
  {OUTPUT_DIR, <<EN>>, <<HI>>, <<EN, US>>, <<EN, RIN>>, ImgDir(EN, US), JsDir(EN, US)}

\* paths that may only be a plain file
ImagePaths == {Join(ImgDir(EN, US), n) : n \in ImageNames}
JsonPaths == {Join(JsDir(EN, US), n) : n \in JsonNames}
FilePaths == {<<NOTES>>} \cup ImagePaths \cup JsonPaths

EmptyFs == [q \in {} |-> DirNode]

Creatable(f, p) == p \notin DOMAIN f /\ (p = OUTPUT_DIR \/ is_dir(f, Parent(p)))

FsCreate(f, p, node) == [q \in DOMAIN f \cup {p} |-> IF q = p THEN node ELSE f[q]]

\* rm -r p
FsRemove(f, p) == [q \in {x \in DOMAIN f : ~IsPrefix(p, x)} |-> f[q]]

\* the filesystems one change away from f; a new annotation file holds one
\* of jsonContents
FsSteps(f, jsonContents) ==
  {FsCreate(f, p, DirNode) : p \in {x \in NodePaths : Creatable(f, x)}}
  \cup {FsCreate(f, p, FileNode(TRUE, Garbage)) :
          p \in {x \in NodePaths \cup ({<<NOTES>>} \cup ImagePaths) : Creatable(f, x)}}
  \cup {FsCreate(f, e[1], FileNode(TRUE, e[2])) :
          e \in {x \in JsonPaths \X jsonContents : Creatable(f, x[1])}}
  \cup {FsRemove(f, p) : p \in DOMAIN f}

----------------------------------------------------------------------------
(* Direct calls of the scans on every filesystem: specification SpecScan *)

NoCall == [fn |-> "none", l |-> << >>, r |-> << >>, path |-> << >>, res |-> Ret(<< >>)]

UiIdle ==
  /\ pc = "idle" /\ lang = PLACEHOLDER /\ region = PLACEHOLDER
  /\ langs = << >> /\ regions = << >> /\ pairs = << >> /\ idx = 0
  /\ calls = << >> /\ hit = NoCall /\ err = NoExc /\ nruns = 0

InitScan ==
  /\ fs = EmptyFs
  /\ out = NoCall
  /\ cache = << >> /\ cachedAt = << >> /\ nchanges = 0
  /\ UiIdle

\* the data producer changes the tree; the last observation is dropped
ScanEnv ==
  /\ \E g \in FsSteps(fs, {Garbage}) : fs' = g
  /\ out' = NoCall
  /\ UNCHANGED <<cache, cachedAt, nchanges>> /\ UNCHANGED uiVars

CallListLanguages ==
  /\ \E listing \in Listings(fs, OUTPUT_DIR) :
       out' = [fn |-> "list_languages", l |-> << >>, r |-> << >>, path |-> << >>,
               res |-> list_languages(fs, OUTPUT_DIR, listing)]
  /\ UNCHANGED <<fs, cache, cachedAt, nchanges>> /\ UNCHANGED uiVars

CallListRegions ==
  /\ \E l \in LangNames : \E listing \in Listings(fs, <<l>>) :
       out' = [fn |-> "list_regions", l |-> l, r |-> << >>, path |-> << >>,
               res |-> list_regions(fs, OUTPUT_DIR, l, listing)]
  /\ UNCHANGED <<fs, cache, cachedAt, nchanges>> /\ UNCHANGED uiVars

CallLoadPairs ==
  /\ \E l \in LangNames, r \in RegionNames : \E listing \in Listings(fs, ImgDir(l, r)) :
       out' = [fn |-> "load_pairs", l |-> l, r |-> r, path |-> << >>,
               res |-> load_pairs(fs, OUTPUT_DIR, l, r, listing)]
  /\ UNCHANGED <<fs, cache, cachedAt, nchanges>> /\ UNCHANGED uiVars

NextScan == ScanEnv \/ CallListLanguages \/ CallListRegions \/ CallLoadPairs

SpecScan == InitScan /\ [][NextScan]_vars

----------------------------------------------------------------------------
(* Direct calls of parse_annotation on every annotation file: SpecParse *)

ParsePath == Join(JsDir(EN, US), A_JSON)

ParseTree ==
  FsCreate(FsCreate(FsCreate(FsCreate(FsCreate(EmptyFs,
    OUTPUT_DIR, DirNode), <<EN>>, DirNode), <<EN, US>>, DirNode),
    ImgDir(EN, US), DirNode), JsDir(EN, US), DirNode)

FileContents == {Garbage, BadUtf8, NonObject} \cup {JsonText(d) : d \in Docs}

ParseFsStates ==
  {ParseTree, FsCreate(ParseTree, ParsePath, DirNode)}
  \cup {FsCreate(ParseTree, ParsePath, FileNode(r, c)) : r \in BOOLEAN, c \in FileContents}

InitParse ==
  /\ fs \in ParseFsStates
  /\ out = NoCall
  /\ cache = << >> /\ cachedAt = << >> /\ nchanges = 0
  /\ UiIdle

CallParse ==
  /\ out.fn = "none"
  /\ out' = [fn |-> "parse_annotation", l |-> << >>, r |-> << >>, path |-> ParsePath,
             res |-> parse_annotation(fs, ParsePath)]
  /\ UNCHANGED <<fs, cache, cachedAt, nchanges>> /\ UNCHANGED uiVars

NextParse == CallParse

SpecParse == InitParse /\ [][NextParse]_vars

----------------------------------------------------------------------------
(* The script and st.cache_data: specification SpecUI *)

\* st.cache_data keys an entry by the function and the values of all its
\* arguments
cache_key_fn_only(fn, base, l, r) == [fn |-> fn, base |-> << >>, l |-> << >>, r |-> << >>]

cache_key(fn, base, l, r) == [fn |-> fn, base |-> base, l |-> l, r |-> r]

\* the decorated function: the cached value when the key is cached, the
\* result of the function otherwise
cached(key, fresh) == IF key \in DOMAIN cache THEN Ret(cache[key]) ELSE fresh

\* the cache after the call: a value that was returned is stored, an
\* exception is not
cache_after(c, key, res) ==
  IF key \notin DOMAIN c /\ res.ok
    THEN [k \in DOMAIN c \cup {key} |-> IF k = key THEN res.value ELSE c[k]]
    ELSE c

\* the filesystem each entry was computed on
cachedAt_after(key, res) ==
  IF key \notin DOMAIN cache /\ res.ok
    THEN [k \in DOMAIN cachedAt \cup {key} |-> IF k = key THEN fs ELSE cachedAt[k]]
    ELSE cachedAt

\* Image.open(img_path): an OSError escapes, an UnidentifiedImageError is
\* caught and reported in the page
image_open(f, p) ==
  IF ~exists(f, p) THEN RaiseOS("FileNotFoundError", p)
  ELSE IF f[p].kind = "dir" THEN RaiseOS("IsADirectoryError", p)
  ELSE IF ~f[p].readable THEN RaiseOS("PermissionError", p)
  ELSE Ret(f[p].content)

\* the script goes on past the selection check even when one selectbox is
\* still at the placeholder (`and` for `or`)
selection_complete_and(l, r) == ~(l = PLACEHOLDER /\ r = PLACEHOLDER)

\* the negation of the condition of the if that ends in st.stop()
selection_complete(l, r) == ~(l = PLACEHOLDER \/ r = PLACEHOLDER)

OneAnnDoc ==
  [hasCategories |-> TRUE,
   categories |-> <<[hasId |-> TRUE, id |-> 1, hasName |-> TRUE, name |-> "title"]>>,
   hasAnnotations |-> TRUE,
   annotations |-> <<[hasCategoryId |-> TRUE, category_id |-> 1, hasText |-> TRUE, text |-> "Hello"]>>]

UiJsonContents == {Garbage, JsonText(EmptyDoc), JsonText(OneAnnDoc)}

\* <root>/en/us/{images,jsons} and an empty <root>/hi
UiTree == FsCreate(ParseTree, <<HI>>, DirNode)

WithFiles(imgs, a, b) ==
  LET addImg(f, n) == IF n \in imgs THEN FsCreate(f, Join(ImgDir(EN, US), n), FileNode(TRUE, Garbage)) ELSE f
      f1 == addImg(addImg(addImg(UiTree, A_PNG), B_PNG), AB_PNG)
      f2 == FsCreate(f1, Join(JsDir(EN, US), A_JSON), FileNode(TRUE, a))
  IN  FsCreate(f2, Join(JsDir(EN, US), B_JSON), FileNode(TRUE, b))

UiInitFs ==
  {WithFiles({A_PNG, B_PNG}, JsonText(OneAnnDoc), JsonText(EmptyDoc)),
   WithFiles({A_PNG, B_PNG, AB_PNG}, Garbage, JsonText(OneAnnDoc))}

LogEntry(fn, l, r, path, res) == [fn |-> fn, l |-> l, r |-> r, path |-> path, res |-> res]

HitEntry(fn, l, r, key, res) ==
  [fn |-> fn, l |-> l, r |-> r, path |-> << >>, res |-> res,
   fromCache |-> key \in DOMAIN cache, key |-> key]

NoHit ==
  [fn |-> "none", l |-> << >>, r |-> << >>, path |-> << >>, res |-> Ret(<< >>),
   fromCache |-> FALSE, key |-> cache_key("none", << >>, << >>, << >>)]

InitUI ==
  /\ fs \in UiInitFs
  /\ out = NoCall
  /\ cache = << >> /\ cachedAt = << >> /\ nchanges = 0
  /\ pc = "idle" /\ lang = PLACEHOLDER /\ region = PLACEHOLDER
  /\ langs = << >> /\ regions = << >> /\ pairs = << >> /\ idx = 0
  /\ calls = << >> /\ hit = NoHit /\ err = NoExc /\ nruns = 0

\* the data producer changes the tree while the viewer is up
UiEnv ==
  /\ nchanges < MaxFsChanges
  /\ \E g \in FsSteps(fs, UiJsonContents) : fs' = g
  /\ nchanges' = nchanges + 1
  /\ UNCHANGED <<out, cache, cachedAt>> /\ UNCHANGED uiVars

\* Streamlit runs the script from the top: at start-up and after every
\* interaction with a widget.  The run is taken up at its first call, line
\* 55; the configuration above it (line 11 reads os.environ, and os is not
\* imported in the file) is not part of it.
StartRun ==
  /\ pc \in {"idle", "stopped", "done", "crashed"}
  /\ nruns < MaxRuns
  /\ nruns' = nruns + 1
  /\ pc' = "list_languages"
  /\ calls' = << >> /\ err' = NoExc /\ idx' = 0
  /\ UNCHANGED <<fs, out, cache, cachedAt, nchanges, lang, region, langs, regions, pairs, hit>>

\* langs = list_languages(OUTPUT_DIR)
RunListLanguages ==
  /\ pc = "list_languages"
  /\ \E listing \in Listings(fs, OUTPUT_DIR) :
       LET key == cache_key("list_languages", OUTPUT_DIR, << >>, << >>)
           res == cached(key, list_languages(fs, OUTPUT_DIR, listing))
       IN  /\ calls' = Append(calls, LogEntry("list_languages", << >>, << >>, << >>, res))
           /\ hit' = HitEntry("list_languages", << >>, << >>, key, res)
           /\ cache' = cache_after(cache, key, res)
           /\ cachedAt' = cachedAt_after(key, res)
           /\ IF res.ok
                THEN langs' = res.value /\ pc' = "select_language" /\ err' = err
                ELSE langs' = langs /\ pc' = "crashed" /\ err' = res.exc
  /\ UNCHANGED <<fs, out, nchanges, lang, region, regions, pairs, idx, nruns>>

\* lang = st.selectbox("Language", options=[placeholder] + langs, index=0):
\* the widget returns one of its options
SelectLanguage ==
  /\ pc = "select_language"
  /\ lang' \in {PLACEHOLDER} \cup Range(langs)
  /\ pc' = "list_regions"
  /\ UNCHANGED <<fs, out, cache, cachedAt, nchanges, region, langs, regions, pairs,
                 idx, calls, hit, err, nruns>>

\* regions = list_regions(OUTPUT_DIR, lang) if lang != placeholder else []
RunListRegions ==
  /\ pc = "list_regions"
  /\ lang # PLACEHOLDER
  /\ \E listing \in Listings(fs, Join(OUTPUT_DIR, lang)) :
       LET key == cache_key("list_regions", OUTPUT_DIR, lang, << >>)
           res == cached(key, list_regions(fs, OUTPUT_DIR, lang, listing))
       IN  /\ calls' = Append(calls, LogEntry("list_regions", lang, << >>, << >>, res))
           /\ hit' = HitEntry("list_regions", lang, << >>, key, res)
           /\ cache' = cache_after(cache, key, res)
           /\ cachedAt' = cachedAt_after(key, res)
           /\ IF res.ok
                THEN regions' = res.value /\ pc' = "select_region" /\ err' = err
                ELSE regions' = regions /\ pc' = "crashed" /\ err' = res.exc
  /\ UNCHANGED <<fs, out, nchanges, lang, region, langs, pairs, idx, nruns>>

SkipListRegions ==
  /\ pc = "list_regions"
  /\ lang = PLACEHOLDER
  /\ regions' = << >>
  /\ pc' = "select_region"
  /\ UNCHANGED <<fs, out, cache, cachedAt, nchanges, lang, region, langs, pairs,
                 idx, calls, hit, err, nruns>>

\* region = st.selectbox("Region", options=[placeholder] + regions, index=0)
SelectRegion ==
  /\ pc = "select_region"
  /\ region' \in {PLACEHOLDER} \cup Range(regions)
  /\ pc' = "check_selection"
  /\ UNCHANGED <<fs, out, cache, cachedAt, nchanges, lang, langs, regions, pairs,
                 idx, calls, hit, err, nruns>>

\* if lang == placeholder or region == placeholder: st.info(...); st.stop()
StopUnselected ==
  /\ pc = "check_selection"
  /\ ~selection_complete(lang, region)
  /\ pc' = "stopped"
  /\ UNCHANGED <<fs, out, cache, cachedAt, nchanges, lang, region, langs, regions,
                 pairs, idx, calls, hit, err, nruns>>

PassSelection ==
  /\ pc = "check_selection"
  /\ selection_complete(lang, region)
  /\ pc' = "load_pairs"
  /\ UNCHANGED <<fs, out, cache, cachedAt, nchanges, lang, region, langs, regions,
                 pairs, idx, calls, hit, err, nruns>>

\* pairs = load_pairs(OUTPUT_DIR, lang, region)
RunLoadPairs ==
  /\ pc = "load_pairs"
  /\ \E listing \in Listings(fs, ImgDir(lang, region)) :
       LET key == cache_key("load_pairs", OUTPUT_DIR, lang, region)
           res == cached(key, load_pairs(fs, OUTPUT_DIR, lang, region, listing))
       IN  /\ calls' = Append(calls, LogEntry("load_pairs", lang, region, << >>, res))
           /\ hit' = HitEntry("load_pairs", lang, region, key, res)
           /\ cache' = cache_after(cache, key, res)
           /\ cachedAt' = cachedAt_after(key, res)
           /\ IF res.ok
                THEN pairs' = res.value /\ pc' = "render" /\ err' = err
                ELSE pairs' = pairs /\ pc' = "crashed" /\ err' = res.exc
  /\ idx' = 0
  /\ UNCHANGED <<fs, out, nchanges, lang, region, langs, regions, nruns>>

\* one turn of `for img_path, js_path in pairs`: the image, then the
\* annotations; an exception out of either ends the run
RenderPair ==
  /\ pc = "render"
  /\ idx < Len(pairs)
  /\ LET img_path == pairs[idx + 1][1]
         js_path == pairs[idx + 1][2]
         im == image_open(fs, img_path)
         res == parse_annotation(fs, js_path)
     IN  IF ~im.ok
           THEN /\ pc' = "crashed" /\ err' = im.exc
                /\ UNCHANGED <<calls, idx>>
           ELSE /\ calls' = Append(calls, LogEntry("parse_annotation", << >>, << >>, js_path, res))
                /\ IF res.ok
                     THEN pc' = pc /\ idx' = idx + 1 /\ err' = err
                     ELSE pc' = "crashed" /\ idx' = idx /\ err' = res.exc
  /\ UNCHANGED <<fs, out, cache, cachedAt, nchanges, lang, region, langs, regions,
                 pairs, hit, nruns>>

\* the loop is over and the script ends
FinishRun ==
  /\ pc = "render"
  /\ idx = Len(pairs)
  /\ pc' = "done"
  /\ UNCHANGED <<fs, out, cache, cachedAt, nchanges, lang, region, langs, regions,
                 pairs, idx, calls, hit, err, nruns>>

NextUI ==
  \/ UiEnv \/ StartRun \/ RunListLanguages \/ SelectLanguage \/ RunListRegions
  \/ SkipListRegions \/ SelectRegion \/ StopUnselected \/ PassSelection
  \/ RunLoadPairs \/ RenderPair \/ FinishRun

SpecUI == InitUI /\ [][NextUI]_vars

----------------------------------------------------------------------------
(* Properties of the scans, checked under SpecScan *)

PairsOut == out.fn = "load_pairs" /\ out.res.ok

Img(i) == out.res.value[i][1]
Js(i) == out.res.value[i][2]

OutImgDir == ImgDir(out.l, out.r)
OutJsDir == JsDir(out.l, out.r)

\* C1: every pair (img, js) load_pairs returns has img an entry of the
\* region's images directory, js an existing entry of its jsons directory,
\* and js the same stem as img: no image without its annotation file and no
\* annotation file without its image is in the result.
C1_PairsMatch ==
  PairsOut =>
    \A i \in 1..Len(out.res.value) :
      /\ Img(i) \in Children(fs, OutImgDir)
      /\ Js(i) \in Children(fs, OutJsDir)
      /\ exists(fs, Js(i))
      /\ stem(PathName(Js(i))) = stem(PathName(Img(i)))

\* a call that returned a pair while an image without annotation file and an
\* annotation file without image were lying in the region
C1_Witness ==
  /\ PairsOut
  /\ Len(out.res.value) >= 1
  /\ \E q \in Children(fs, OutImgDir) :
       /\ fnmatch_star(PathName(q), PNG)
       /\ ~exists(fs, Join(OutJsDir, stem(PathName(q)) \o JSON))
  /\ \E j \in Children(fs, OutJsDir) :
       \A q \in Children(fs, OutImgDir) : stem(PathName(q)) # stem(PathName(j))

\* the extensions of raster images among the names of the model
RasterExts == {PNG, JPG}

Occurrences(q) == Cardinality({i \in 1..Len(out.res.value) : Img(i) = q})

\* C2 as stated: every image with a raster-image extension whose annotation
\* file exists is in the result exactly once.
C2_AsStated ==
  (PairsOut /\ exists(fs, OutImgDir) /\ exists(fs, OutJsDir)) =>
    \A q \in Children(fs, OutImgDir) :
      (/\ suffix(PathName(q)) \in RasterExts
       /\ exists(fs, Join(OutJsDir, stem(PathName(q)) \o JSON)))
        => Occurrences(q) = 1

\* C2 amended: every entry of images whose name matches *.png and whose
\* annotation file jsons/<stem>.json exists is in the result exactly once;
\* with images a.png, b.png and only a.json the result is the one pair of a.
C2_Complete ==
  (PairsOut /\ exists(fs, OutImgDir) /\ exists(fs, OutJsDir)) =>
    /\ \A q \in Children(fs, OutImgDir) :
         (/\ fnmatch_star(PathName(q), PNG)
          /\ exists(fs, Join(OutJsDir, stem(PathName(q)) \o JSON)))
           => Occurrences(q) = 1
    /\ (/\ {PathName(q) : q \in Children(fs, OutImgDir)} = {A_PNG, B_PNG}
        /\ {PathName(q) : q \in Children(fs, OutJsDir)} = {A_JSON})
         => out.res.value = << <<Join(OutImgDir, A_PNG), Join(OutJsDir, A_JSON)>> >>

\* the end-to-end scenario, and a region where two images are paired
C2_Witness ==
  /\ PairsOut
  /\ Len(out.res.value) = 2
  /\ \E q \in Children(fs, OutImgDir) : Occurrences(q) = 0

\* C3: the pairs are in strictly increasing order of the image file names,
\* and whatever order the OS enumerates the directory in, a call with the
\* same arguments on the same filesystem returns the same sequence.
C3_Ordered ==
  PairsOut =>
    /\ \A i, j \in 1..Len(out.res.value) :
         i < j => StrLess(PathName(Img(i)), PathName(Img(j)))
    /\ \A listing \in Listings(fs, OutImgDir) :
         load_pairs(fs, OUTPUT_DIR, out.l, out.r, listing) = out.res

C3_Witness == PairsOut /\ Len(out.res.value) = 3

\* C5: a scanned directory that is absent gives the empty sequence, not an
\* error: list_languages on an absent root, list_regions on an absent
\* root/language, load_pairs on an absent images or jsons directory.
C5_AbsentIsEmpty ==
  /\ (out.fn = "list_languages" /\ ~exists(fs, OUTPUT_DIR)) => out.res = Ret(<< >>)
  /\ (out.fn = "list_regions" /\ ~exists(fs, <<out.l>>)) => out.res = Ret(<< >>)
  /\ (out.fn = "load_pairs" /\ (~exists(fs, OutImgDir) \/ ~exists(fs, OutJsDir)))
       => out.res = Ret(<< >>)

C5_Witness ==
  /\ out.fn = "list_languages"
  /\ ~exists(fs, OUTPUT_DIR)
  /\ out.res = Ret(<< >>)

DirNames(d) == {PathName(q) : q \in {c \in Children(fs, d) : is_dir(fs, c)}}

StrictlySorted(s) == \A i, j \in 1..Len(s) : i < j => StrLess(s[i], s[j])

ListsDirsOf(d) ==
  /\ out.res.ok
  /\ Range(out.res.value) = DirNames(d)
  /\ StrictlySorted(out.res.value)

\* C6 as stated: for every root that exists, list_languages returns the
\* names of its subdirectories, sorted, without duplicates; list_regions
\* does the same for root/language.
C6_AsStated ==
  /\ (out.fn = "list_languages" /\ exists(fs, OUTPUT_DIR)) => ListsDirsOf(OUTPUT_DIR)
  /\ (out.fn = "list_regions" /\ exists(fs, <<out.l>>)) => ListsDirsOf(<<out.l>>)

\* C6 amended: for every root that is a directory, list_languages returns
\* exactly the names of its immediate subdirectories (other entries left
\* out), strictly sorted; list_regions does the same when root/language is a
\* directory.
C6_ListsSubdirs ==
  /\ (out.fn = "list_languages" /\ is_dir(fs, OUTPUT_DIR)) => ListsDirsOf(OUTPUT_DIR)
  /\ (out.fn = "list_regions" /\ is_dir(fs, <<out.l>>)) => ListsDirsOf(<<out.l>>)

\* a listing of two languages out of a root that also holds a plain file,
\* and a listing of a region directory next to a plain file
C6_Witness ==
  \/ /\ out.fn = "list_languages"
     /\ Len(out.res.value) = 2
     /\ \E q \in Children(fs, OUTPUT_DIR) : ~is_dir(fs, q)
  \/ /\ out.fn = "list_regions"
     /\ Len(out.res.value) = 1
     /\ \E q \in Children(fs, <<out.l>>) : ~is_dir(fs, q)

----------------------------------------------------------------------------
(* Properties of parse_annotation, checked under SpecParse *)

Parsed == out.fn = "parse_annotation"

Unreadable(p) == ~exists(fs, p) \/ fs[p].kind = "dir" \/ ~fs[p].readable

Undecodable(p) == ~Unreadable(p) /\ fs[p].content.form # "object"

WellFormed(p) == ~Unreadable(p) /\ fs[p].content.form = "object"

DocOf(p) == fs[p].content.doc

\* C4 as stated: a file that cannot be read or decoded makes parse_annotation
\* fail with an error (the MalformedAnnotationError of the claim, whatever
\* exception type stands for it) that carries the path.
C4_AsStated ==
  (Parsed /\ (Unreadable(out.path) \/ Undecodable(out.path))) =>
    /\ ~out.res.ok
    /\ out.res.exc.hasFilename
    /\ out.res.exc.filename = out.path

\* C4 amended: a file that cannot be read makes parse_annotation fail with
\* the OSError of open (FileNotFoundError, IsADirectoryError,
\* PermissionError), which carries the path; a file that cannot be decoded
\* makes it fail with UnicodeDecodeError, JSONDecodeError or AttributeError,
\* which carry no path; the failure reaches the caller and is never replaced
\* by default values.
C4_Propagates ==
  Parsed =>
    /\ Unreadable(out.path) =>
         /\ ~out.res.ok
         /\ out.res.exc.type =
              (IF ~exists(fs, out.path) THEN "FileNotFoundError"
               ELSE IF fs[out.path].kind = "dir" THEN "IsADirectoryError"
               ELSE "PermissionError")
         /\ out.res.exc.hasFilename
         /\ out.res.exc.filename = out.path
    /\ Undecodable(out.path) =>
         /\ ~out.res.ok
         /\ out.res.exc.type =
              (IF fs[out.path].content.form = "badutf8" THEN "UnicodeDecodeError"
               ELSE IF fs[out.path].content.form = "badjson" THEN "JSONDecodeError"
               ELSE "AttributeError")
         /\ ~out.res.exc.hasFilename

C4_Witness ==
  /\ Parsed
  /\ Undecodable(out.path)
  /\ out.res.exc.type = "JSONDecodeError"

BothKeys(c) == c.hasId /\ c.hasName

\* C7 as stated: the category map holds id -> name for exactly the elements
\* of categories that have both keys.
C7_AsStated ==
  (Parsed /\ WellFormed(out.path)) =>
    /\ out.res.ok
    /\ LET cats == get_categories(DocOf(out.path))
           m == out.res.value.cat_map
       IN  /\ \A i \in 1..Len(cats) :
                BothKeys(cats[i]) => (cats[i].id \in DOMAIN m /\ m[cats[i].id] = cats[i].name)
           /\ \A k \in DOMAIN m :
                \E i \in 1..Len(cats) : BothKeys(cats[i]) /\ cats[i].id = k

\* C7 amended: the keys of the category map are exactly the ids of the
\* elements of categories that have both id and name, and each id maps to
\* the name of the last such element with that id; elements missing id or
\* name are skipped without error.
C7_LastWins ==
  (Parsed /\ WellFormed(out.path)) =>
    /\ out.res.ok
    /\ LET cats == get_categories(DocOf(out.path))
           m == out.res.value.cat_map
           Last(k) == CHOOSE i \in 1..Len(cats) :
                        /\ BothKeys(cats[i]) /\ cats[i].id = k
                        /\ \A j \in 1..Len(cats) :
                             (BothKeys(cats[j]) /\ cats[j].id = k) => j <= i
       IN  /\ DOMAIN m = {cats[i].id : i \in {j \in 1..Len(cats) : BothKeys(cats[j])}}
           /\ \A k \in DOMAIN m : m[k] = cats[Last(k)].name

\* an element without a name in front of a complete one, which is kept
C7_Witness ==
  /\ Parsed /\ WellFormed(out.path) /\ out.res.ok
  /\ LET cats == get_categories(DocOf(out.path))
     IN  /\ Len(cats) = 2
         /\ ~cats[1].hasName /\ cats[1].hasId
         /\ BothKeys(cats[2])
         /\ DOMAIN out.res.value.cat_map = {cats[2].id}

\* C8: on a well-formed file parse_annotation does not fail; without an
\* annotations key the annotation list is empty, without a categories key the
\* category map is empty, and an annotations list that is present is returned
\* as it is.
C8_Defaults ==
  (Parsed /\ WellFormed(out.path)) =>
    /\ out.res.ok
    /\ ~DocOf(out.path).hasAnnotations => out.res.value.ann = << >>
    /\ ~DocOf(out.path).hasCategories => DOMAIN out.res.value.cat_map = {}
    /\ DocOf(out.path).hasAnnotations => out.res.value.ann = DocOf(out.path).annotations

C8_Witness ==
  /\ Parsed /\ WellFormed(out.path) /\ out.res.ok
  /\ ~DocOf(out.path).hasAnnotations
  /\ DocOf(out.path).hasCategories
  /\ out.res.value.ann = << >>

----------------------------------------------------------------------------
(* Properties of the cache and of the script, checked under SpecUI *)

\* the directory the scan of the last call enumerates
ScannedDir ==
  IF hit.fn = "list_languages" THEN OUTPUT_DIR
  ELSE IF hit.fn = "list_regions" THEN Join(OUTPUT_DIR, hit.l)
  ELSE ImgDir(hit.l, hit.r)

\* what the undecorated function returns now for the arguments of the last call
FreshScan(listing) ==
  IF hit.fn = "list_languages" THEN list_languages(fs, OUTPUT_DIR, listing)
  ELSE IF hit.fn = "list_regions" THEN list_regions(fs, OUTPUT_DIR, hit.l, listing)
  ELSE load_pairs(fs, OUTPUT_DIR, hit.l, hit.r, listing)

\* C9: a call of list_languages, list_regions or load_pairs that the cache
\* answered, on a filesystem that is the one the entry was computed on,
\* returned what a fresh scan with the same arguments returns.
C9_CacheInvisible ==
  (hit.fromCache /\ cachedAt[hit.key] = fs) =>
    \A listing \in Listings(fs, ScannedDir) : FreshScan(listing) = hit.res

C9_Witness ==
  /\ hit.fromCache
  /\ cachedAt[hit.key] = fs
  /\ hit.fn = "load_pairs"
  /\ Len(hit.res.value) = 2

====
